---- MODULE Spec2Model ----
(***************************************************************************)
(* Reachability analysis of a Petri net (src/petri_net/reachability.rs).   *)
(*                                                                         *)
(* The module models PetriNet::reachability_analysis as a state machine:   *)
(* the marking table, the BFS queue, the result rows and the Boundedness   *)
(* and Liveness accumulators are the state; one action stands for each     *)
(* step of the function (setup, one firing attempt of fire_transitions,    *)
(* the push_back after it, the pop of the while loop, one iteration of the *)
(* for loop, the row emission, the return) and one for the summary that    *)
(* Display::fmt derives from the completed analysis.                       *)
(*                                                                         *)
(* The net is an input.  It is drawn in Init from a bounded family of nets *)
(* (places, transitions, an ordered list of distinct arcs, a weight for    *)
(* every arc, a capacity for every place, an initial marking).             *)
(***************************************************************************)
EXTENDS Integers, Sequences, FiniteSets, TLC

\* ------------------------------------------------------------------ bounds
\* The nets of the family have the places P0, P1 and the transitions T0, T1
\* (PlaceId and TransitionId are dense zero-based indices).
MaxArcs == 3
MaxWeight == 2
MaxCapacity == 2
MaxInitialTokens == 1

PlaceIds == {0, 1}
TransitionIds == {0, 1}
NumPlaces == Cardinality(PlaceIds)
NumTransitions == Cardinality(TransitionIds)

\* ------------------------------------------------------- Tokens / Marking
\* Marking(BTreeMap<PlaceId, Tokens>): a function whose domain is the set of
\* places stored in the map.
EmptyMarking == [p \in {} |-> 0]

\* MarkingFn::get: an absent place holds 0 tokens
Get(m, id) == IF id \in DOMAIN m THEN m[id] ELSE 0

Set_KeepsZero(m, id, tokens) ==
    [q \in (DOMAIN m) \cup {id} |-> IF q = id THEN tokens ELSE m[q]]

\* MarkingFn::set: a place with 0 tokens is removed from the map
Set(m, id, tokens) ==
    IF tokens = 0
    THEN [q \in (DOMAIN m) \ {id} |-> m[q]]
    ELSE [q \in (DOMAIN m) \cup {id} |-> IF q = id THEN tokens ELSE m[q]]

\* FromIterator for Marking: set() for every (place, tokens) pair, in place order
RECURSIVE FromIter(_, _, _)
FromIter(f, p, m) ==
    IF p >= NumPlaces THEN m ELSE FromIter(f, p + 1, Set(m, p, f[p]))

covered_by_Strict(self, other) == \A id \in DOMAIN self : Get(other, id) > self[id]

\* Marking::covered_by
covered_by(self, other) == \A id \in DOMAIN self : Get(other, id) >= self[id]

\* ------------------------------------------------------------------- arcs
PlaceTransition(source, target) == <<"PT", source, target>>
TransitionPlace(source, target) == <<"TP", source, target>>

AllArcs == {PlaceTransition(p, t) : p \in PlaceIds, t \in TransitionIds}
           \cup {TransitionPlace(t, p) : t \in TransitionIds, p \in PlaceIds}

\* A fixed total order of the arcs, used to list a set of arcs as the arc list
ArcKey(a) ==
    IF a[1] = "PT" THEN a[3] * NumPlaces + a[2]
    ELSE NumPlaces * NumTransitions + a[2] * NumPlaces + a[3]

RECURSIVE Ascending(_)
Ascending(S) ==
    IF S = {} THEN <<>>
    ELSE LET a == CHOOSE x \in S : \A y \in S : ArcKey(x) <= ArcKey(y)
         IN  <<a>> \o Ascending(S \ {a})

Reverse(s) == [i \in 1 .. Len(s) |-> s[Len(s) + 1 - i]]

\* Some transition has several output arcs in S
SeveralOutputs(S) ==
    \E a \in S, b \in S : a # b /\ a[1] = "TP" /\ b[1] = "TP" /\ a[2] = b[2]

\* The arc lists of a set of arcs: ascending, and descending too when some
\* transition has several outputs (the arc list decides the order of
\* TransitionIO.inputs and .outputs; fire_transitions stops at the first
\* failing input or output, and only a failing output leaves a trace that
\* depends on the ones before it)
ArcLists(S) ==
    IF SeveralOutputs(S) THEN {Ascending(S), Reverse(Ascending(S))} ELSE {Ascending(S)}

\* The nets of the family: every set of at most MaxArcs arcs, every weight
\* 1 or MaxWeight, every capacity 1 or MaxCapacity, every place initially
\* empty or holding MaxInitialTokens tokens.  The initial marking is built
\* by FromIterator, the only constructor of a Marking outside this file.
ArcSets == {S \in SUBSET AllArcs : Cardinality(S) <= MaxArcs}

Nets ==
    UNION { UNION { { [arcs |-> l, weights |-> w, capacities |-> c,
                       initial_marking |-> FromIter(f, 0, EmptyMarking)]
                      : w \in [S -> {1, MaxWeight}],
                        c \in [PlaceIds -> {1, MaxCapacity}],
                        f \in [PlaceIds -> {0, MaxInitialTokens}] }
                    : l \in ArcLists(S) }
            : S \in ArcSets }

\* The capacity get_or_default gives a place that has none: unlimited, the
\* greatest value of Tokens.  The number stands for usize::MAX; no count of a
\* run of the model comes near it.
UnlimitedCapacity == 2147483647

\* WeightFn::get_or_default and CapacityFn::get_or_default: every arc of the
\* net has a weight and every place a capacity
WeightOf(n, arc) == n.weights[arc]

CapacityOf_Finite(n, place) ==
    IF n.capacities[place] = UnlimitedCapacity THEN MaxCapacity ELSE n.capacities[place]

CapacityOf(n, place) == n.capacities[place]

\* ------------------------------------------------------------------ Bound
Bounded(n) == [kind |-> "Bounded", n |-> n]
Unbounded == [kind |-> "Unbounded", n |-> 0]

\* impl Ord for Bound: cmp as -1 (Less), 0 (Equal), 1 (Greater)
BoundCmp(a, b) ==
    CASE a.kind = "Bounded" /\ b.kind = "Bounded" ->
            (IF a.n < b.n THEN -1 ELSE IF a.n = b.n THEN 0 ELSE 1)
      [] a.kind = "Unbounded" /\ b.kind = "Unbounded" -> 0
      [] a.kind = "Bounded" /\ b.kind = "Unbounded" -> 1
      [] a.kind = "Unbounded" /\ b.kind = "Bounded" -> -1

\* std::cmp::max on Bound: the second argument unless the first is greater
BoundMax(a, b) == IF BoundCmp(a, b) = 1 THEN a ELSE b

\* Boundedness::new
BoundednessNew(n) ==
    [p \in PlaceIds |->
        IF p \in DOMAIN n.initial_marking THEN Bounded(n.initial_marking[p])
        ELSE Bounded(0)]

BoundednessUpdate_Overwrite(b, place_id, bound) ==
    [b EXCEPT ![place_id] = bound]

\* Boundedness::update
BoundednessUpdate(b, place_id, bound) ==
    [b EXCEPT ![place_id] = BoundMax(b[place_id], bound)]

\* ------------------------------------------------------------------- Live
L0 == 0
L1 == 1
L2 == 2
L3 == 3
L4 == 4

LiveMin(a, b) == IF a < b THEN a ELSE b

\* std::cmp::max on Live (the derived order L0 < L1 < L2 < L3 < L4)
LiveMax(a, b) == IF a > b THEN a ELSE b

\* Liveness::new
LivenessNew == [t \in TransitionIds |-> L0]

LivenessUpdate_Promote(l, transition_id, live) ==
    [l EXCEPT ![transition_id] = IF l[transition_id] >= live THEN L4 ELSE live]

\* Liveness::update
LivenessUpdate(l, transition_id, live) ==
    [l EXCEPT ![transition_id] = LiveMax(l[transition_id], live)]

\* ----------------------------------------------------------- TransitionIO
\* PetriNet::transition_io: for every transition its id, the sources of the
\* place->transition arcs into it and the targets of the transition->place
\* arcs out of it, both in arc-list order
InputsOf(arcs, t) ==
    LET s == SelectSeq(arcs, LAMBDA a : a[1] = "PT" /\ a[3] = t)
    IN  [i \in 1 .. Len(s) |-> s[i][2]]

OutputsOf(arcs, t) ==
    LET s == SelectSeq(arcs, LAMBDA a : a[1] = "TP" /\ a[2] = t)
    IN  [i \in 1 .. Len(s) |-> s[i][3]]

transition_io(n) ==
    [t \in TransitionIds |->
        [id |-> t, inputs |-> InputsOf(n.arcs, t), outputs |-> OutputsOf(n.arcs, t)]]

\* ------------------------------------------------------- fire_transitions
\* The try_for_each over transition.inputs: checked_sub of the arc weight
\* from the clone, stopping at the first input that has too few tokens
RECURSIVE TakeInputs(_, _, _, _)
TakeInputs(n, transition, i, m) ==
    IF i > Len(transition.inputs) THEN [ok |-> TRUE, marking |-> m]
    ELSE LET source_place == transition.inputs[i]
             current_tokens == Get(m, source_place)
             token_requirement == WeightOf(n, PlaceTransition(source_place, transition.id))
         IN  IF current_tokens >= token_requirement
             THEN TakeInputs(n, transition, i + 1,
                             Set(m, source_place, current_tokens - token_requirement))
             ELSE [ok |-> FALSE, marking |-> m]

\* The try_for_each over transition.outputs: capacity.checked_sub(weight)
\* filtered by current_tokens <= max_current_tokens; on success the tokens
\* are added and boundedness.update is called at once; the loop stops at the
\* first output that lacks capacity
RECURSIVE PutOutputs_OffByOne(_, _, _, _, _)
PutOutputs_OffByOne(n, transition, i, m, b) ==
    IF i > Len(transition.outputs) THEN [ok |-> TRUE, marking |-> m, boundedness |-> b]
    ELSE LET target_place == transition.outputs[i]
             current_tokens == Get(m, target_place)
             output_weight == WeightOf(n, TransitionPlace(transition.id, target_place))
             capacity == CapacityOf(n, target_place)
         IN  IF capacity >= output_weight /\ current_tokens < capacity - output_weight
             THEN LET new_tokens == current_tokens + output_weight
                  IN  PutOutputs_OffByOne(n, transition, i + 1,
                                          Set(m, target_place, new_tokens),
                                          BoundednessUpdate(b, target_place, Bounded(new_tokens)))
             ELSE [ok |-> FALSE, marking |-> m, boundedness |-> b]

RECURSIVE PutOutputs_IgnoresCapacity(_, _, _, _, _)
PutOutputs_IgnoresCapacity(n, transition, i, m, b) ==
    IF i > Len(transition.outputs) THEN [ok |-> TRUE, marking |-> m, boundedness |-> b]
    ELSE LET target_place == transition.outputs[i]
             current_tokens == Get(m, target_place)
             output_weight == WeightOf(n, TransitionPlace(transition.id, target_place))
             capacity == CapacityOf(n, target_place)
         IN  IF capacity >= output_weight
             THEN LET new_tokens == current_tokens + output_weight
                  IN  PutOutputs_IgnoresCapacity(n, transition, i + 1,
                                                 Set(m, target_place, new_tokens),
                                                 BoundednessUpdate(b, target_place, Bounded(new_tokens)))
             ELSE [ok |-> FALSE, marking |-> m, boundedness |-> b]

RECURSIVE PutOutputs(_, _, _, _, _)
PutOutputs(n, transition, i, m, b) ==
    IF i > Len(transition.outputs) THEN [ok |-> TRUE, marking |-> m, boundedness |-> b]
    ELSE LET target_place == transition.outputs[i]
             current_tokens == Get(m, target_place)
             output_weight == WeightOf(n, TransitionPlace(transition.id, target_place))
             capacity == CapacityOf(n, target_place)
         IN  IF capacity >= output_weight /\ current_tokens <= capacity - output_weight
             THEN LET new_tokens == current_tokens + output_weight
                  IN  PutOutputs(n, transition, i + 1,
                                 Set(m, target_place, new_tokens),
                                 BoundednessUpdate(b, target_place, Bounded(new_tokens)))
             ELSE [ok |-> FALSE, marking |-> m, boundedness |-> b]

FireOne_NeedsArc(n, transition, m, b, l) ==
    LET in == TakeInputs(n, transition, 1, m)
        out == IF in.ok THEN PutOutputs(n, transition, 1, in.marking, b)
               ELSE [ok |-> FALSE, marking |-> in.marking, boundedness |-> b]
        ok == out.ok /\ (transition.inputs # <<>> \/ transition.outputs # <<>>)
    IN  [ok |-> ok,
         marking |-> out.marking,
         boundedness |-> out.boundedness,
         liveness |-> IF ok THEN LivenessUpdate(l, transition.id, L1) ELSE l]

\* The closure of the filter_map in fire_transitions, for one transition:
\* ok and marking are its Option<(TransitionId, Marking)>, boundedness and
\* liveness the accumulators as the attempt leaves them
FireOne(n, transition, m, b, l) ==
    LET in == TakeInputs(n, transition, 1, m)
        out == IF in.ok THEN PutOutputs(n, transition, 1, in.marking, b)
               ELSE [ok |-> FALSE, marking |-> in.marking, boundedness |-> b]
    IN  [ok |-> out.ok,
         marking |-> out.marking,
         boundedness |-> out.boundedness,
         liveness |-> IF out.ok THEN LivenessUpdate(l, transition.id, L1) ELSE l]

\* --------------------------------------------------------------- Markings
\* Markings::remember: the id is the size of the table before the insert
\* (the id returned and the table after the insert)
remember_IdFromOne(tbl, m) ==
    LET id == Cardinality(DOMAIN tbl) + 1
    IN  [id |-> id,
         markings |-> [x \in (DOMAIN tbl) \cup {m} |-> IF x = m THEN id ELSE tbl[x]]]

remember(tbl, m) ==
    LET id == Cardinality(DOMAIN tbl)
    IN  [id |-> id,
         markings |-> [x \in (DOMAIN tbl) \cup {m} |-> IF x = m THEN id ELSE tbl[x]]]

\* Markings::look_up: Option<MarkingId>
Known(tbl, m) == m \in DOMAIN tbl
look_up(tbl, m) == tbl[m]

\* ---------------------------------------------------- ReachabilityAnalysis
Interpretation_IgnoresArcs(n, m) ==
    LET places_with_tokens == {p \in DOMAIN m : m[p] > 0}
    IN  IF /\ Cardinality(places_with_tokens) = 1
           /\ \A place_id \in places_with_tokens : m[place_id] = 1
        THEN "final"
        ELSE "deadlock"

\* The interpretation of a deadlocked marking in deadlocks()
Interpretation(n, m) ==
    LET places_with_tokens == {p \in DOMAIN m : m[p] > 0}
    IN  IF /\ Cardinality(places_with_tokens) = 1
           /\ \A place_id \in places_with_tokens :
                 /\ m[place_id] = 1
                 /\ ~ \E i \in 1 .. Len(n.arcs) :
                        n.arcs[i][1] = "PT" /\ n.arcs[i][2] = place_id
        THEN "final"
        ELSE "deadlock"

\* ReachabilityAnalysis::deadlocks
deadlocks(n, rs) ==
    LET s == SelectSeq(rs, LAMBDA r : r[3] = <<>>)
    IN  [i \in 1 .. Len(s) |-> <<s[i][1], Interpretation(n, s[i][2])>>]

\* ReachabilityAnalysis::boundedness: Iterator::max, Bounded(0) when empty
RECURSIVE BoundFold(_, _, _)
BoundFold(b, p, acc) ==
    IF p >= NumPlaces THEN acc ELSE BoundFold(b, p + 1, BoundMax(acc, b[p]))

boundedness_of(b) == IF NumPlaces = 0 THEN Bounded(0) ELSE BoundFold(b, 1, b[0])

\* ReachabilityAnalysis::is_safe
is_safe(b) == \A p \in DOMAIN b : b[p] = Bounded(1)

\* ReachabilityAnalysis::is_live
is_live(l) == \A t \in DOMAIN l : l[t] = L4

\* ReachabilityAnalysis::is_quasi_live
is_quasi_live(l) == ~ is_live(l) /\ \E t \in DOMAIN l : l[t] = L4

\* ReachabilityAnalysis::loops
loops == <<>>

is_sound_LivenessOnly(b, l) == \A t \in DOMAIN l : l[t] # L0

\* ReachabilityAnalysis::is_sound
is_sound(b, l) ==
    /\ \A t \in DOMAIN l : l[t] # L0
    /\ \A p \in DOMAIN b : BoundCmp(b[p], Bounded(0)) = 1

\* ------------------------------------------------------------------ state
VARIABLES
    net,                 \* the PetriNet analysed (never mutated)
    pc,                  \* position in reachability_analysis / Display::fmt
    markings,            \* Markings: marking -> MarkingId
    queue,               \* VecDeque of (MarkingId, Marking, Vec<(TransitionId, Marking)>)
    rows,                \* analysis.rows
    boundedness,         \* analysis.boundedness
    liveness,            \* analysis.liveness
    source_marking_id,   \* the entry popped by the while loop
    source_marking,
    branches_to_explore, \* the part of it the for loop has not visited yet
    continuations,
    fire_id,             \* the id of the marking fire_transitions runs on
    fire_marking,        \* the marking fire_transitions runs on
    fire_next,           \* the transition its filter_map visits next
    fire_result,         \* the pairs its filter_map has collected
    report,              \* what Display::fmt derives from the analysis
    call                 \* the last call of a function applied on its own

vars == <<net, pc, markings, queue, rows, boundedness, liveness,
          source_marking_id, source_marking, branches_to_explore, continuations,
          fire_id, fire_marking, fire_next, fire_result, report, call>>

NoId == 0 - 1
NoReport == [printed |-> FALSE]
NoCall == [op |-> "none"]

Init ==
    /\ net \in Nets
    /\ pc = "start"
    /\ markings = [m \in {} |-> 0]
    /\ queue = <<>>
    /\ rows = <<>>
    /\ boundedness = [p \in PlaceIds |-> Bounded(0)]
    /\ liveness = [t \in TransitionIds |-> L0]
    /\ source_marking_id = NoId
    /\ source_marking = EmptyMarking
    /\ branches_to_explore = <<>>
    /\ continuations = <<>>
    /\ fire_id = NoId
    /\ fire_marking = EmptyMarking
    /\ fire_next = 0
    /\ fire_result = <<>>
    /\ report = NoReport
    /\ call = NoCall

loopVars == <<source_marking_id, source_marking, branches_to_explore, continuations>>
fireVars == <<fire_id, fire_marking, fire_next, fire_result>>

\* reachability_analysis up to the first call of fire_transitions:
\* ReachabilityAnalysis::new, remember(initial_marking), transition_io
Start ==
    /\ pc = "start"
    /\ boundedness' = BoundednessNew(net)
    /\ liveness' = LivenessNew
    /\ rows' = <<>>
    /\ markings' = remember(markings, net.initial_marking).markings
    /\ queue' = <<>>
    /\ fire_id' = remember(markings, net.initial_marking).id
    /\ fire_marking' = net.initial_marking
    /\ fire_next' = 0
    /\ fire_result' = <<>>
    /\ pc' = "fire_initial"
    /\ UNCHANGED <<net, loopVars, report, call>>

\* One iteration of the filter_map of fire_transitions: the firing attempt
\* of transition fire_next from fire_marking
FireAttempt ==
    /\ pc \in {"fire_initial", "fire"}
    /\ fire_next < NumTransitions
    /\ LET r == FireOne(net, transition_io(net)[fire_next], fire_marking,
                        boundedness, liveness)
       IN  /\ boundedness' = r.boundedness
           /\ liveness' = r.liveness
           /\ fire_result' = IF r.ok THEN Append(fire_result, <<fire_next, r.marking>>)
                             ELSE fire_result
    /\ fire_next' = fire_next + 1
    /\ UNCHANGED <<net, pc, markings, queue, rows, loopVars, fire_id, fire_marking, report, call>>

FireReturn_PushFront ==
    /\ pc \in {"fire_initial", "fire"}
    /\ fire_next >= NumTransitions
    /\ queue' = <<(<<fire_id, fire_marking, fire_result>>)>> \o queue
    /\ pc' = IF pc = "fire_initial" THEN "while" ELSE "for"
    /\ fire_id' = NoId
    /\ fire_marking' = EmptyMarking
    /\ fire_next' = 0
    /\ fire_result' = <<>>
    /\ UNCHANGED <<net, markings, rows, boundedness, liveness, loopVars, report, call>>

\* fire_transitions returns and its result is pushed to the back of the queue
\* with the marking and its id
FireReturn ==
    /\ pc \in {"fire_initial", "fire"}
    /\ fire_next >= NumTransitions
    /\ queue' = Append(queue, <<fire_id, fire_marking, fire_result>>)
    /\ pc' = IF pc = "fire_initial" THEN "while" ELSE "for"
    /\ fire_id' = NoId
    /\ fire_marking' = EmptyMarking
    /\ fire_next' = 0
    /\ fire_result' = <<>>
    /\ UNCHANGED <<net, markings, rows, boundedness, liveness, loopVars, report, call>>

\* while let Some(..) = queue.pop_front()
PopFront ==
    /\ pc = "while"
    /\ queue # <<>>
    /\ source_marking_id' = Head(queue)[1]
    /\ source_marking' = Head(queue)[2]
    /\ branches_to_explore' = Head(queue)[3]
    /\ continuations' = <<>>
    /\ queue' = Tail(queue)
    /\ pc' = "for"
    /\ UNCHANGED <<net, markings, rows, boundedness, liveness, fireVars, report, call>>

ExistingMarking_NoContinuation ==
    /\ pc = "for"
    /\ branches_to_explore # <<>>
    /\ Known(markings, Head(branches_to_explore)[2])
    /\ branches_to_explore' = Tail(branches_to_explore)
    /\ UNCHANGED <<net, pc, markings, queue, rows, boundedness, liveness,
                   source_marking_id, source_marking, continuations, fireVars, report, call>>

\* for loop, the resulting marking is in the table: a continuation to its id
ExistingMarking_Remembers ==
    /\ pc = "for"
    /\ branches_to_explore # <<>>
    /\ LET transition_id == Head(branches_to_explore)[1]
           resulting_marking == Head(branches_to_explore)[2]
           new_marking_id == remember(markings, resulting_marking).id
       IN  /\ Known(markings, resulting_marking)
           /\ markings' = remember(markings, resulting_marking).markings
           /\ continuations' = Append(continuations, <<transition_id, new_marking_id>>)
    /\ branches_to_explore' = Tail(branches_to_explore)
    /\ UNCHANGED <<net, pc, queue, rows, boundedness, liveness,
                   source_marking_id, source_marking, fireVars, report, call>>

ExistingMarking ==
    /\ pc = "for"
    /\ branches_to_explore # <<>>
    /\ LET transition_id == Head(branches_to_explore)[1]
           resulting_marking == Head(branches_to_explore)[2]
       IN  /\ Known(markings, resulting_marking)
           /\ continuations' = Append(continuations,
                                      <<transition_id, look_up(markings, resulting_marking)>>)
    /\ branches_to_explore' = Tail(branches_to_explore)
    /\ UNCHANGED <<net, pc, markings, queue, rows, boundedness, liveness,
                   source_marking_id, source_marking, fireVars, report, call>>

NewMarking_NotExplored ==
    /\ pc = "for"
    /\ branches_to_explore # <<>>
    /\ LET transition_id == Head(branches_to_explore)[1]
           resulting_marking == Head(branches_to_explore)[2]
           new_marking_id == remember(markings, resulting_marking).id
       IN  /\ ~ Known(markings, resulting_marking)
           /\ markings' = remember(markings, resulting_marking).markings
           /\ continuations' = Append(continuations, <<transition_id, new_marking_id>>)
    /\ branches_to_explore' = Tail(branches_to_explore)
    /\ UNCHANGED <<net, pc, queue, rows, boundedness, liveness,
                   source_marking_id, source_marking, fireVars, report, call>>

\* for loop, the resulting marking is new: remember it, a continuation to the
\* new id, and fire_transitions from it
NewMarking ==
    /\ pc = "for"
    /\ branches_to_explore # <<>>
    /\ LET transition_id == Head(branches_to_explore)[1]
           resulting_marking == Head(branches_to_explore)[2]
           new_marking_id == remember(markings, resulting_marking).id
       IN  /\ ~ Known(markings, resulting_marking)
           /\ markings' = remember(markings, resulting_marking).markings
           /\ continuations' = Append(continuations, <<transition_id, new_marking_id>>)
           /\ fire_id' = new_marking_id
           /\ fire_marking' = resulting_marking
    /\ fire_next' = 0
    /\ fire_result' = <<>>
    /\ branches_to_explore' = Tail(branches_to_explore)
    /\ pc' = "fire"
    /\ UNCHANGED <<net, queue, rows, boundedness, liveness,
                   source_marking_id, source_marking, report, call>>

\* analysis.rows.push after the for loop
PushRow ==
    /\ pc = "for"
    /\ branches_to_explore = <<>>
    /\ rows' = Append(rows, <<source_marking_id, source_marking, continuations>>)
    /\ source_marking_id' = NoId
    /\ source_marking' = EmptyMarking
    /\ continuations' = <<>>
    /\ pc' = "while"
    /\ UNCHANGED <<net, markings, queue, boundedness, liveness,
                   branches_to_explore, fireVars, report, call>>

Return_Early ==
    /\ pc = "while"
    /\ pc' = "done"
    /\ UNCHANGED <<net, markings, queue, rows, boundedness, liveness,
                   loopVars, fireVars, report, call>>

\* the queue is empty: reachability_analysis returns the analysis
Return ==
    /\ pc = "while"
    /\ queue = <<>>
    /\ pc' = "done"
    /\ UNCHANGED <<net, markings, queue, rows, boundedness, liveness,
                   loopVars, fireVars, report, call>>

\* Display::fmt, the "Interpretation" section and the summary lines
Fmt ==
    /\ pc = "done"
    /\ report' = [printed |-> TRUE,
                  deadlocks |-> deadlocks(net, rows),
                  boundedness |-> boundedness_of(boundedness),
                  is_safe |-> is_safe(boundedness),
                  is_live |-> is_live(liveness),
                  is_quasi_live |-> is_quasi_live(liveness),
                  loops |-> loops,
                  is_sound |-> is_sound(boundedness, liveness)]
    /\ pc' = "reported"
    /\ UNCHANGED <<net, markings, queue, rows, boundedness, liveness,
                   loopVars, fireVars, call>>

Next ==
    \/ Start
    \/ FireAttempt
    \/ FireReturn
    \/ PopFront
    \/ ExistingMarking
    \/ NewMarking
    \/ PushRow
    \/ Return
    \/ Fmt

Spec == Init /\ [][Next]_vars

\* the steps of reachability_analysis itself; Display::fmt is the caller's
Analysis ==
    \/ Start
    \/ FireAttempt
    \/ FireReturn
    \/ PopFront
    \/ ExistingMarking
    \/ NewMarking
    \/ PushRow
    \/ Return

\* reachability_analysis is one sequential call: once entered it keeps
\* executing as long as it has a next step
SpecFair == Spec /\ WF_vars(Analysis)

\* --------------------------------------- initial markings over capacity
\* Nothing in reachability_analysis compares the initial marking with the
\* capacities.  The nets of SpecOver have fewer arcs than those of Spec and
\* initial markings that may hold more tokens than any capacity.
OverNets ==
    UNION { UNION { { [arcs |-> l, weights |-> w, capacities |-> c,
                       initial_marking |-> FromIter(f, 0, EmptyMarking)]
                      : w \in [S -> {1, MaxWeight}],
                        c \in [PlaceIds -> {1, MaxCapacity}],
                        f \in [PlaceIds -> {0, 1, MaxCapacity + 1}] }
                    : l \in ArcLists(S) }
            : S \in {T \in ArcSets : Cardinality(T) < MaxArcs} }

InitOver ==
    /\ net \in OverNets
    /\ pc = "start"
    /\ markings = [m \in {} |-> 0]
    /\ queue = <<>>
    /\ rows = <<>>
    /\ boundedness = [p \in PlaceIds |-> Bounded(0)]
    /\ liveness = [t \in TransitionIds |-> L0]
    /\ source_marking_id = NoId
    /\ source_marking = EmptyMarking
    /\ branches_to_explore = <<>>
    /\ continuations = <<>>
    /\ fire_id = NoId
    /\ fire_marking = EmptyMarking
    /\ fire_next = 0
    /\ fire_result = <<>>
    /\ report = NoReport
    /\ call = NoCall

SpecOver == InitOver /\ [][Next]_vars

\* ------------------------------------------ places of unlimited capacity
\* On a net whose reachable markings are infinitely many the analysis does
\* not end.  SpecUnlimited runs it on nets whose places have capacity 1 or no
\* capacity at all, and follows a run until its table holds MaxTable markings.
MaxTable == 4

UnlimitedNets ==
    UNION { UNION { { [arcs |-> l, weights |-> w, capacities |-> c,
                       initial_marking |-> FromIter(f, 0, EmptyMarking)]
                      : w \in [S -> {1, MaxWeight}],
                        c \in [PlaceIds -> {1, UnlimitedCapacity}],
                        f \in [PlaceIds -> {0, MaxInitialTokens}] }
                    : l \in ArcLists(S) }
            : S \in {T \in ArcSets : Cardinality(T) < MaxArcs} }

InitUnlimited ==
    /\ net \in UnlimitedNets
    /\ pc = "start"
    /\ markings = [m \in {} |-> 0]
    /\ queue = <<>>
    /\ rows = <<>>
    /\ boundedness = [p \in PlaceIds |-> Bounded(0)]
    /\ liveness = [t \in TransitionIds |-> L0]
    /\ source_marking_id = NoId
    /\ source_marking = EmptyMarking
    /\ branches_to_explore = <<>>
    /\ continuations = <<>>
    /\ fire_id = NoId
    /\ fire_marking = EmptyMarking
    /\ fire_next = 0
    /\ fire_result = <<>>
    /\ report = NoReport
    /\ call = NoCall

\* NewMarking while the table holds fewer than MaxTable markings
NewMarkingCapped ==
    /\ Cardinality(DOMAIN markings) < MaxTable
    /\ NewMarking

NextUnlimited ==
    \/ Start
    \/ FireAttempt
    \/ FireReturn
    \/ PopFront
    \/ ExistingMarking
    \/ NewMarkingCapped
    \/ PushRow
    \/ Return
    \/ Fmt

SpecUnlimited == InitUnlimited /\ [][NextUnlimited]_vars

\* ------------------------------------------- Bound and Boundedness alone
\* Bound is a public type with a public order; the specification SpecBound
\* applies cmp, Boundedness::update and boundedness() to every Boundedness
\* vector over BoundValues.
MaxBound == 2

BoundValues == {Bounded(k) : k \in 0 .. MaxBound} \cup {Unbounded}

\* the net without arcs and tokens
BareNet ==
    [arcs |-> <<>>, weights |-> [a \in {} |-> 1],
     capacities |-> [p \in PlaceIds |-> 1], initial_marking |-> EmptyMarking]

\* no analysis is running
NoAnalysis ==
    /\ net = BareNet
    /\ markings = [m \in {} |-> 0]
    /\ queue = <<>>
    /\ rows = <<>>
    /\ liveness = [t \in TransitionIds |-> L0]
    /\ source_marking_id = NoId
    /\ source_marking = EmptyMarking
    /\ branches_to_explore = <<>>
    /\ continuations = <<>>
    /\ fire_id = NoId
    /\ fire_marking = EmptyMarking
    /\ fire_next = 0
    /\ fire_result = <<>>
    /\ report = NoReport

analysisVars == <<net, pc, markings, queue, rows, liveness, loopVars, fireVars, report>>

InitBound ==
    /\ NoAnalysis
    /\ pc = "bound"
    /\ boundedness \in [PlaceIds -> BoundValues]
    /\ call = NoCall

\* a.cmp(b)
CmpCall ==
    /\ pc = "bound"
    /\ \E a \in BoundValues, b \in BoundValues :
          call' = [op |-> "cmp", a |-> a, b |-> b, result |-> BoundCmp(a, b)]
    /\ UNCHANGED <<analysisVars, boundedness>>

\* boundedness.update(place_id, bound)
UpdateCall ==
    /\ pc = "bound"
    /\ \E place_id \in PlaceIds, bound \in BoundValues :
          /\ boundedness' = BoundednessUpdate(boundedness, place_id, bound)
          /\ call' = [op |-> "update", old |-> boundedness[place_id], bound |-> bound,
                      result |-> BoundednessUpdate(boundedness, place_id, bound)[place_id]]
    /\ UNCHANGED analysisVars

\* analysis.boundedness()
BoundednessCall ==
    /\ pc = "bound"
    /\ call' = [op |-> "boundedness", vec |-> boundedness,
                result |-> boundedness_of(boundedness)]
    /\ UNCHANGED <<analysisVars, boundedness>>

NextBound == CmpCall \/ UpdateCall \/ BoundednessCall

SpecBound == InitBound /\ [][NextBound]_vars

\* ------------------------------------------------------ covered_by alone
\* Marking::covered_by is public and the analysis never calls it; the
\* specification SpecCover applies it to markings built by from_iter.
MaxCoverTokens == 2

CoverMarkings ==
    {FromIter(f, 0, EmptyMarking) : f \in [PlaceIds -> 0 .. MaxCoverTokens]}

InitCover ==
    /\ NoAnalysis
    /\ pc = "cover"
    /\ boundedness = [p \in PlaceIds |-> Bounded(0)]
    /\ \E m \in CoverMarkings, n \in CoverMarkings, o \in CoverMarkings :
          call = [op |-> "markings", m |-> m, n |-> n, o |-> o]

\* m.covered_by(&n) and the calls it is compared with
CoveredByCall ==
    /\ pc = "cover"
    /\ call.op = "markings"
    /\ call' = [op |-> "covered_by", m |-> call.m, n |-> call.n, o |-> call.o,
                m_n |-> covered_by(call.m, call.n),
                n_o |-> covered_by(call.n, call.o),
                m_o |-> covered_by(call.m, call.o),
                m_m |-> covered_by(call.m, call.m),
                empty_m |-> covered_by(EmptyMarking, call.m)]
    /\ UNCHANGED <<analysisVars, boundedness>>

NextCover == CoveredByCall

SpecCover == InitCover /\ [][NextCover]_vars

\* =================================================================== claims
\* The firing rule of the net, stated on markings as total functions from
\* places to token counts, independently of fire_transitions.
Dense(m) == [p \in PlaceIds |-> Get(m, p)]

HasArc(n, arc) == \E i \in 1 .. Len(n.arcs) : n.arcs[i] = arc

ArcWeight(n, arc) == IF HasArc(n, arc) THEN n.weights[arc] ELSE 0

IsInput(n, t, p) == HasArc(n, PlaceTransition(p, t))
IsOutput(n, t, p) == HasArc(n, TransitionPlace(t, p))

AfterInputs(n, t, M, p) == M[p] - ArcWeight(n, PlaceTransition(p, t))

EnabledRule(n, t, M) ==
    /\ \A p \in PlaceIds : IsInput(n, t, p) => M[p] >= ArcWeight(n, PlaceTransition(p, t))
    /\ \A q \in PlaceIds :
          IsOutput(n, t, q) =>
             AfterInputs(n, t, M, q) + ArcWeight(n, TransitionPlace(t, q)) <= n.capacities[q]

FiredRule(n, t, M) ==
    [p \in PlaceIds |-> AfterInputs(n, t, M, p) + ArcWeight(n, TransitionPlace(t, p))]

\* The markings reachable from M0 by a finite firing sequence
RECURSIVE ReachClosure(_, _)
ReachClosure(n, S) ==
    LET N == S \cup {FiredRule(n, t, M) : <<t, M>> \in
                        {x \in TransitionIds \X S : EnabledRule(n, x[1], x[2])}}
    IN  IF N = S THEN S ELSE ReachClosure(n, N)

ReachableRule(n) == ReachClosure(n, {Dense(n.initial_marking)})

Returned == pc \in {"done", "reported"}
Firing == pc \in {"fire_initial", "fire"}
RowIndex == 1 .. Len(rows)
RowMarking(i) == Dense(rows[i][2])

\* ---- C1
\* C1: when reachability_analysis returns, the markings of the rows are
\* exactly the markings reachable from the initial marking by a finite firing
\* sequence, and no two rows hold the same marking.
C1_RowsAreTheReachableMarkings ==
    Returned =>
        /\ {RowMarking(i) : i \in RowIndex} = ReachableRule(net)
        /\ \A i \in RowIndex, j \in RowIndex : i # j => RowMarking(i) # RowMarking(j)

\* a run that returned at least three rows, one of them reached by two edges
C1_Witness ==
    /\ Returned
    /\ Len(rows) >= 3
    /\ \E i \in RowIndex, j \in RowIndex, a \in 1 .. NumTransitions, b \in 1 .. NumTransitions :
          /\ i # j
          /\ a <= Len(rows[i][3])
          /\ b <= Len(rows[j][3])
          /\ rows[i][3][a][2] = rows[j][3][b][2]

\* ---- C2
\* C2: fire_transitions returns (t, M') for t exactly when every input place
\* of t holds at least the arc weight and every output place q has
\* (tokens after the inputs were subtracted) + weight(t, q) <= capacity(q);
\* M' is then M with the input weights subtracted and the output weights
\* added, and a place that is neither input nor output of t keeps its count.
C2_FiresExactlyTheEnabled ==
    Firing =>
        /\ \A t \in TransitionIds :
              t < fire_next =>
                 ((\E i \in 1 .. Len(fire_result) : fire_result[i][1] = t)
                    <=> EnabledRule(net, t, Dense(fire_marking)))
        /\ \A i \in 1 .. Len(fire_result) :
              LET t == fire_result[i][1]
                  M2 == fire_result[i][2]
              IN  /\ Dense(M2) = FiredRule(net, t, Dense(fire_marking))
                  /\ \A p \in PlaceIds :
                        (~ IsInput(net, t, p) /\ ~ IsOutput(net, t, p))
                           => Get(M2, p) = Get(fire_marking, p)

\* fire_transitions has tried every transition: one fired, moving tokens and
\* leaving a marked place alone, and one was disabled
C2_Witness ==
    /\ Firing
    /\ fire_next = NumTransitions
    /\ Len(fire_result) = 1
    /\ LET t == fire_result[1][1]
       IN  /\ \E p \in PlaceIds : IsInput(net, t, p)
           /\ \E p \in PlaceIds : IsOutput(net, t, p)
           /\ \E p \in PlaceIds :
                 ~ IsInput(net, t, p) /\ ~ IsOutput(net, t, p) /\ Get(fire_marking, p) > 0

\* ---- C3
\* The firing attempt the next FireAttempt step makes
NextAttempt ==
    FireOne(net, transition_io(net)[fire_next], fire_marking, boundedness, liveness)

\* C3: a firing attempt of a disabled transition leaves no mutation visible:
\* the source marking is unchanged, nothing is added to the result set, and
\* neither the Boundedness nor the Liveness accumulator changes.
C3_DisabledAttemptChangesNothing ==
    [][(Firing /\ fire_next < NumTransitions /\ ~ NextAttempt.ok)
          => /\ fire_marking' = fire_marking
             /\ fire_result' = fire_result
             /\ boundedness' = boundedness
             /\ liveness' = liveness]_vars

\* ---- C4
MaxTokensInRows(p) ==
    CHOOSE k \in {RowMarking(i)[p] : i \in RowIndex} :
        \A i \in RowIndex : RowMarking(i)[p] <= k

\* C4: when reachability_analysis returns, the Boundedness entry of every
\* place p is Bounded(n), n the maximum number of tokens p holds over the
\* markings of the rows.
C4_BoundIsTheMaximumOverRows ==
    Returned => \A p \in PlaceIds : boundedness[p] = Bounded(MaxTokensInRows(p))

\* ---- C5
\* C5: when reachability_analysis returns, the Liveness entry of a transition
\* is L1 if it is enabled in the marking of at least one row, and L0 if it is
\* enabled in none.
C5_LiveIffEnabledInSomeRow ==
    Returned =>
        \A t \in TransitionIds :
            liveness[t] = IF \E i \in RowIndex : EnabledRule(net, t, RowMarking(i))
                          THEN L1 ELSE L0

\* a run that returned several rows with one transition L1 and the other L0
C5_Witness ==
    /\ Returned
    /\ Len(rows) >= 2
    /\ \E t \in TransitionIds, u \in TransitionIds : liveness[t] = L1 /\ liveness[u] = L0

\* ---- C6
TableSize == Cardinality(DOMAIN markings)

\* C6: MarkingIds are dense and assigned in discovery order: the initial
\* marking has id 0, the ids of the table are 0..n-1 with none assigned
\* twice, the k-th emitted row (from 0) carries MarkingId k and is the
\* marking the table gives that id, and on return the rows carry 0..n-1.
C6_IdsAreDenseAndInRowOrder ==
    /\ pc # "start" => markings[net.initial_marking] = 0
    /\ {markings[m] : m \in DOMAIN markings} = 0 .. (TableSize - 1)
    /\ \A k \in RowIndex :
          /\ rows[k][1] = k - 1
          /\ markings[rows[k][2]] = k - 1
    /\ \A k \in 1 .. Len(queue) :
          /\ markings[queue[k][2]] = queue[k][1]
          /\ k > 1 => queue[k][1] = queue[k - 1][1] + 1
    /\ Returned => Len(rows) = TableSize

\* a run that returned at least three rows
C6_Witness == Returned /\ Len(rows) >= 3 /\ rows[3][1] = 2

\* ---- C7
EnabledIn(M) == {t \in TransitionIds : EnabledRule(net, t, M)}

\* C7: in the completed graph every row (id, M, continuations) holds exactly
\* one continuation (t, id') for every transition enabled in M and none for a
\* disabled one, in transition order, and id' is the id of the row whose
\* marking is the result of firing t from M; the list is empty iff no
\* transition is enabled in M.
C7_ContinuationsAreTheEnabledTransitions ==
    Returned =>
        \A i \in RowIndex :
            LET M == RowMarking(i)
                c == rows[i][3]
            IN  /\ {c[k][1] : k \in 1 .. Len(c)} = EnabledIn(M)
                /\ \A k \in 1 .. Len(c) : k > 1 => c[k - 1][1] < c[k][1]
                /\ \A k \in 1 .. Len(c) :
                      \E j \in RowIndex :
                          /\ rows[j][1] = c[k][2]
                          /\ RowMarking(j) = FiredRule(net, c[k][1], M)
                /\ (c = <<>>) <=> (EnabledIn(M) = {})

\* a completed graph with a row of two continuations that lead to different
\* rows and a row without continuation
C7_Witness ==
    /\ Returned
    /\ \E i \in RowIndex : Len(rows[i][3]) = 2 /\ rows[i][3][1][2] # rows[i][3][2][2]
    /\ \E i \in RowIndex : rows[i][3] = <<>>

\* ---- C8
RowOfId(id) == CHOOSE i \in RowIndex : rows[i][1] = id

\* exactly one place holds tokens, it holds one, and no arc leaves it
FinalRule(n, M) ==
    \E p \in PlaceIds :
        /\ M[p] = 1
        /\ \A q \in PlaceIds : q # p => M[q] = 0
        /\ \A t \in TransitionIds : ~ HasArc(n, PlaceTransition(p, t))

\* C8: deadlocks() reports exactly the rows whose continuation list is empty
\* and classifies such a row Final iff its marking has exactly one place with
\* tokens, that place holds exactly 1 token and no place-to-transition arc
\* starts at it; every other reported row is classified Deadlock.
C8_DeadlocksAndTheirInterpretation ==
    report.printed =>
        LET d == report.deadlocks
        IN  /\ {d[k][1] : k \in 1 .. Len(d)} = {rows[i][1] : i \in {j \in RowIndex : rows[j][3] = <<>>}}
            /\ \A k \in 1 .. Len(d) :
                  /\ k > 1 => d[k - 1][1] < d[k][1]
                  /\ d[k][2] = IF FinalRule(net, RowMarking(RowOfId(d[k][1])))
                               THEN "final" ELSE "deadlock"

\* a report with a Final row and a Deadlock row
C8_Witness ==
    /\ report.printed
    /\ \E k \in 1 .. Len(report.deadlocks) : report.deadlocks[k][2] = "final"
    /\ \E k \in 1 .. Len(report.deadlocks) : report.deadlocks[k][2] = "deadlock"

\* ---- C9
\* C9: for a net in which every place has capacity 1 and no firing sequence
\* from the initial marking puts more than 1 token on a place, is_safe() is
\* true after reachability_analysis.
C9_SafeWhenNoPlaceExceedsOne ==
    (/\ report.printed
     /\ \A p \in PlaceIds : net.capacities[p] = 1
     /\ \A M \in ReachableRule(net) : \A p \in PlaceIds : M[p] <= 1)
        => report.is_safe

\* ---- C10
\* C10: after reachability_analysis, is_sound() is true iff every transition
\* is enabled in at least one discovered marking and every place holds at
\* least one token in at least one discovered marking.
C10_SoundIffAllFiredAndAllMarked ==
    report.printed =>
        (report.is_sound <=>
            /\ \A t \in TransitionIds : \E i \in RowIndex : EnabledRule(net, t, RowMarking(i))
            /\ \A p \in PlaceIds : \E i \in RowIndex : RowMarking(i)[p] >= 1)

\* a report of a sound net
C10_Witness == report.printed /\ report.is_sound /\ Len(rows) >= 2

\* ---- C11
Isolated(n, t) ==
    \A p \in PlaceIds : ~ IsInput(n, t, p) /\ ~ IsOutput(n, t, p)

\* C11 as stated: an isolated transition (no arc from or to any place) never
\* becomes enabled, its Liveness entry remains L0 after reachability_analysis
\* and is_sound() is false.
C11_IsolatedTransitionNeverFires ==
    \A t \in TransitionIds :
        Isolated(net, t) =>
            /\ Firing => \A i \in 1 .. Len(fire_result) : fire_result[i][1] # t
            /\ Returned => liveness[t] = L0
            /\ report.printed => ~ report.is_sound

\* C11 amended: an isolated transition is enabled in every marking and firing
\* it leaves the marking unchanged (every row holds a continuation from the
\* row to itself); its Liveness entry is L1 after reachability_analysis, and
\* is_sound() is false only when another transition remains L0 or some place
\* holds no token in any discovered marking.
C11_IsolatedTransitionAlwaysFires ==
    [](\A t \in TransitionIds :
            Isolated(net, t) =>
                /\ (Firing /\ t < fire_next) =>
                      \E i \in 1 .. Len(fire_result) : fire_result[i] = <<t, fire_marking>>
                /\ Returned =>
                      /\ liveness[t] = L1
                      /\ \A i \in RowIndex :
                            \E k \in 1 .. Len(rows[i][3]) : rows[i][3][k] = <<t, rows[i][1]>>
                /\ (report.printed /\ ~ report.is_sound) =>
                      \/ \E u \in TransitionIds : u # t /\ liveness[u] = L0
                      \/ \E p \in PlaceIds : \A i \in RowIndex : RowMarking(i)[p] = 0)

\* the report of a sound net with an isolated transition and several rows
C11_Witness ==
    /\ report.printed
    /\ report.is_sound
    /\ Len(rows) >= 2
    /\ \E t \in TransitionIds : Isolated(net, t)

\* ---- C12
\* C12: under the order of Bound every Bounded(n) is strictly less than
\* Unbounded and Bounded(a) < Bounded(b) iff a < b; hence the maximum of
\* Unbounded and any Bounded(n) is Unbounded, both in Boundedness.update and
\* in boundedness().
C12_UnboundedIsTheGreatestBound ==
    /\ call.op = "cmp" =>
          /\ (call.a.kind = "Bounded" /\ call.b.kind = "Unbounded") => call.result = -1
          /\ (call.a.kind = "Unbounded" /\ call.b.kind = "Bounded") => call.result = 1
          /\ (call.a.kind = "Bounded" /\ call.b.kind = "Bounded") =>
                ((call.result = -1) <=> (call.a.n < call.b.n))
    /\ call.op = "update" =>
          ((call.old = Unbounded \/ call.bound = Unbounded) => call.result = Unbounded)
    /\ call.op = "boundedness" =>
          ((\E p \in PlaceIds : call.vec[p] = Unbounded) => call.result = Unbounded)

\* ---- C13
\* every marking of the table is the marking of exactly one row
ExpandedOnce ==
    \A m \in DOMAIN markings : Cardinality({i \in RowIndex : rows[i][2] = m}) = 1

\* C13: when the reachable markings are finitely many (here every place has a
\* finite capacity), reachability_analysis terminates: the loop eventually
\* finds the queue empty and returns, and at that point every discovered
\* marking has been popped and expanded exactly once.
C13_AnalysisTerminates ==
    /\ <>(Returned /\ queue = <<>>)
    /\ []((Returned \/ (pc = "while" /\ queue = <<>>)) => ExpandedOnce)

\* a run that returned after going round a cycle of the reachability graph
C13_Witness ==
    /\ Returned
    /\ queue = <<>>
    /\ Len(rows) >= 3
    /\ \E i \in RowIndex : \E k \in 1 .. Len(rows[i][3]) : rows[i][3][k][2] = 0

\* ---- C15
\* C15: M.covered_by(N) is true iff M.get(p) <= N.get(p) for every place p
\* (a place absent from M asks nothing of N); covered_by is reflexive and
\* transitive, and the empty marking is covered by every marking.
C15_CoveredByIsThePointwiseOrder ==
    call.op = "covered_by" =>
        /\ call.m_n <=> \A p \in PlaceIds : Get(call.m, p) <= Get(call.n, p)
        /\ call.m_m
        /\ (call.m_n /\ call.n_o) => call.m_o
        /\ call.empty_m

\* three different markings in a chain, the least of them with an absent place
C15_Witness ==
    /\ call.op = "covered_by"
    /\ call.m_n
    /\ call.n_o
    /\ call.m # call.n
    /\ call.n # call.o
    /\ call.m # EmptyMarking
    /\ DOMAIN call.m # PlaceIds

\* ---- C16
\* every marking the analysis holds: in the table, the queue (with the
\* branches queued for it), the rows, the branches being explored and the
\* firing in progress
HeldMarkings ==
    (DOMAIN markings)
    \cup {queue[k][2] : k \in 1 .. Len(queue)}
    \cup UNION {{queue[k][3][j][2] : j \in 1 .. Len(queue[k][3])} : k \in 1 .. Len(queue)}
    \cup {rows[k][2] : k \in RowIndex}
    \cup {branches_to_explore[k][2] : k \in 1 .. Len(branches_to_explore)}
    \cup {fire_result[k][2] : k \in 1 .. Len(fire_result)}
    \cup {source_marking, fire_marking, net.initial_marking}

\* C16: no marking held in the table, the queue or the rows stores a place
\* with 0 tokens, so markings that agree as functions from places to token
\* counts are equal, are found in the table when one of them is, and carry
\* the same MarkingId, whichever firing sequence produced them.
C16_ZeroIsNeverStored ==
    [](/\ \A m \in HeldMarkings : \A p \in DOMAIN m : m[p] > 0
       /\ \A m1 \in HeldMarkings, m2 \in HeldMarkings :
             Dense(m1) = Dense(m2) =>
                 /\ m1 = m2
                 /\ Known(markings, m1) <=> Known(markings, m2)
                 /\ Known(markings, m1) => look_up(markings, m1) = look_up(markings, m2)
       /\ \A i \in RowIndex, j \in RowIndex :
             RowMarking(i) = RowMarking(j) => rows[i][1] = rows[j][1])

\* a firing drained a place of the initial marking and a later firing led
\* back to the initial marking, which was given its id 0 again
C16_Witness ==
    /\ Returned
    /\ \E i \in RowIndex :
          /\ i > 1
          /\ \E p \in DOMAIN net.initial_marking : p \notin DOMAIN rows[i][2]
          /\ \E k \in 1 .. Len(rows[i][3]) : rows[i][3][k][2] = 0

\* ---- C17
\* the order the claim speaks of: Bounded by the count, Unbounded on top
BoundLeq(a, b) ==
    \/ b.kind = "Unbounded"
    \/ a.kind = "Bounded" /\ b.kind = "Bounded" /\ a.n <= b.n

\* C17: across the whole run every Boundedness entry and every Liveness entry
\* is monotone: no step lowers a place's bound or a transition's liveness
\* class (L0 < L1 < L2 < L3 < L4), and once the analysis has started a
\* place's bound is never below its initial token count.
C17_BoundsAndLivenessNeverDecrease ==
    /\ [][/\ \A p \in PlaceIds : BoundLeq(boundedness[p], boundedness'[p])
          /\ \A t \in TransitionIds : liveness[t] <= liveness'[t]]_vars
    /\ [](pc # "start" =>
            \A p \in PlaceIds :
                BoundLeq(Bounded(Get(net.initial_marking, p)), boundedness[p]))

\* a transition fired for the second time, leaving on one of its outputs
\* fewer tokens than the bound that place already has
C17_Witness ==
    /\ pc = "fire"
    /\ \E k \in 1 .. Len(fire_result) :
          /\ liveness[fire_result[k][1]] = L1
          /\ \E i \in RowIndex : \E j \in 1 .. Len(rows[i][3]) :
                rows[i][3][j][1] = fire_result[k][1]
          /\ \E p \in PlaceIds :
                /\ IsOutput(net, fire_result[k][1], p)
                /\ boundedness[p].kind = "Bounded"
                /\ Get(fire_result[k][2], p) < boundedness[p].n

\* ---- C18
\* d gives every marking reachable by at most k firings the length of its
\* shortest firing sequence; the result gives it to every reachable marking
RECURSIVE LayersRule(_, _, _)
LayersRule(n, d, k) ==
    LET S == DOMAIN d
        N == {FiredRule(n, x[1], x[2]) :
                x \in {y \in TransitionIds \X S : EnabledRule(n, y[1], y[2])}} \ S
    IN  IF N = {} THEN d
        ELSE LayersRule(n, [M \in S \cup N |-> IF M \in S THEN d[M] ELSE k + 1], k + 1)

\* the length of the shortest firing sequence from the initial marking to
\* each reachable marking
DistanceRule(n) == LayersRule(n, [M \in {Dense(n.initial_marking)} |-> 0], 0)

\* the markings expanded, being expanded or waiting to be, in that order
Expansions ==
    [i \in RowIndex |-> rows[i][2]]
    \o (IF pc \in {"for", "fire"} THEN <<source_marking>> ELSE <<>>)
    \o [k \in 1 .. Len(queue) |-> queue[k][2]]
    \o (IF Firing THEN <<fire_marking>> ELSE <<>>)

\* C18: rows are in BFS order: of two rows the one with the smaller MarkingId
\* has a shortest firing sequence from the initial marking that is no longer
\* than the other's; and a marking is never expanded again when a later edge
\* reaches it.
C18_RowsAreInBfsOrder ==
    [](/\ \A i \in 1 .. Len(Expansions), j \in 1 .. Len(Expansions) :
             i < j => Expansions[i] # Expansions[j]
       /\ Returned =>
             LET d == DistanceRule(net)
             IN  \A i \in RowIndex, j \in RowIndex :
                     rows[i][1] < rows[j][1] => d[RowMarking(i)] <= d[RowMarking(j)])

\* two markings one firing away, emitted before a marking two firings away
\* that both of them reach
C18_Witness ==
    /\ Returned
    /\ Len(rows) >= 4
    /\ DistanceRule(net)[RowMarking(2)] = 1
    /\ DistanceRule(net)[RowMarking(3)] = 1
    /\ DistanceRule(net)[RowMarking(4)] = 2
    /\ \E k \in 1 .. Len(rows[2][3]) : rows[2][3][k][2] = rows[4][1]
    /\ \E k \in 1 .. Len(rows[3][3]) : rows[3][3][k][2] = rows[4][1]

\* ---- C19
\* C19: every Liveness entry is L0 or L1 at every point of every run (L2, L3
\* and L4 are never assigned); so is_quasi_live() is false, is_live() is
\* false for a net with at least one transition, and loops() is empty.
C19_LivenessStopsAtL1 ==
    [](/\ \A t \in TransitionIds : liveness[t] \in {L0, L1}
       /\ report.printed =>
             /\ ~ report.is_quasi_live
             /\ TransitionIds # {} => ~ report.is_live
             /\ report.loops = <<>>)

\* the report of a net whose reachability graph has no dead end and in which
\* every transition fired: each transition can fire again and again, and the
\* report still says neither live nor quasi-live and lists no loop
C19_Witness ==
    /\ report.printed
    /\ Len(rows) >= 2
    /\ \A i \in RowIndex : rows[i][3] # <<>>
    /\ \A t \in TransitionIds :
          /\ liveness[t] = L1
          /\ Cardinality({i \in RowIndex :
                \E k \in 1 .. Len(rows[i][3]) : rows[i][3][k][1] = t}) >= 2

\* ---- C20
InitialTokens(p) == Get(net.initial_marking, p)

RespectsCapacities == \A p \in PlaceIds : InitialTokens(p) <= net.capacities[p]

\* C20: in every discovered marking M and for every place p,
\* M(p) <= max(M0(p), capacity(p)); so if the initial marking respects the
\* capacities no discovered marking exceeds a capacity; and the sum
\* current_tokens + output_weight of a firing is at most the capacity of the
\* place, itself a value of the token type, so it cannot overflow.
C20_CapacityBoundsEveryMarking ==
    /\ \A m \in HeldMarkings : \A p \in PlaceIds :
          \/ Get(m, p) <= InitialTokens(p)
          \/ Get(m, p) <= net.capacities[p]
    /\ RespectsCapacities =>
          \A m \in HeldMarkings : \A p \in PlaceIds : Get(m, p) <= net.capacities[p]
    /\ \A k \in 1 .. Len(fire_result) : \A p \in PlaceIds :
          IsOutput(net, fire_result[k][1], p) =>
              Get(fire_result[k][2], p) <= net.capacities[p]

\* the initial marking overfills a place, a firing filled another place to
\* its capacity, and the overfull place kept its tokens
C20_Witness ==
    /\ Returned
    /\ \E p \in PlaceIds, q \in PlaceIds, i \in RowIndex :
          /\ InitialTokens(p) > net.capacities[p]
          /\ Get(rows[i][2], p) = InitialTokens(p)
          /\ InitialTokens(q) < net.capacities[q]
          /\ Get(rows[i][2], q) = net.capacities[q]

\* ---- C21
\* the number of queue entries and of rows that hold the marking m
QueueEntriesOf(m) == Cardinality({k \in 1 .. Len(queue) : queue[k][2] = m})
RowsOf(m) == Cardinality({i \in RowIndex : rows[i][2] = m})

\* C21: at every iteration boundary of the BFS loop each marking of the table
\* is in exactly one queue entry or in exactly one row, never both and never
\* neither, so |rows| + |queue| is the size of the table; and remember is
\* never called for a marking the table already holds (a call adds one
\* marking and leaves every id given before as it was), also when two
\* transitions fired from one source marking yield the same new marking.
C21_EveryMarkingQueuedOrEmittedOnce ==
    /\ [](pc = "while" =>
            /\ \A m \in DOMAIN markings : QueueEntriesOf(m) + RowsOf(m) = 1
            /\ \A k \in 1 .. Len(queue) : Known(markings, queue[k][2])
            /\ \A i \in RowIndex : Known(markings, rows[i][2])
            /\ Len(rows) + Len(queue) = TableSize)
    /\ [][markings' # markings =>
            /\ Cardinality(DOMAIN markings') = TableSize + 1
            /\ \A m \in DOMAIN markings : markings'[m] = markings[m]]_vars

\* an iteration ended whose source marking reached one new marking by two
\* transitions; the marking waits in the queue once
C21_Witness ==
    /\ pc = "while"
    /\ \E i \in RowIndex : \E k1 \in 1 .. Len(rows[i][3]), k2 \in 1 .. Len(rows[i][3]) :
          /\ rows[i][3][k1][1] # rows[i][3][k2][1]
          /\ rows[i][3][k1][2] = rows[i][3][k2][2]
          /\ rows[i][3][k1][2] > rows[i][1]
          /\ \E q \in 1 .. Len(queue) : queue[q][1] = rows[i][3][k1][2]

\* ---- C22
\* some transition has no input place and feeds only places of unlimited
\* capacity, at least one
GrowsWithoutLimit(n) ==
    \E t \in TransitionIds :
        /\ \A p \in PlaceIds : ~ IsInput(n, t, p)
        /\ \E p \in PlaceIds : IsOutput(n, t, p)
        /\ \A p \in PlaceIds : IsOutput(n, t, p) => n.capacities[p] = UnlimitedCapacity

\* C22: throughout a run every Boundedness entry has the form Bounded(n):
\* Unbounded is never stored and boundedness() gives a Bounded value, also on
\* a net with a place that grows without limit; on such a net the search
\* keeps discovering markings: the loop never finds the queue empty, some
\* discovered marking is always still to be expanded, and the analysis does
\* not return.
C22_UnboundedIsNeverStored ==
    /\ \A p \in PlaceIds : boundedness[p].kind = "Bounded"
    /\ boundedness_of(boundedness).kind = "Bounded"
    /\ report.printed => report.boundedness.kind = "Bounded"
    /\ GrowsWithoutLimit(net) =>
          /\ ~ Returned
          /\ pc = "while" =>
                /\ queue # <<>>
                /\ Cardinality(DOMAIN markings) > Len(rows)

\* a run on such a net that has filled the table and counted more tokens on
\* a place than any finite capacity of the model allows
C22_Witness ==
    /\ GrowsWithoutLimit(net)
    /\ pc = "while"
    /\ Cardinality(DOMAIN markings) = MaxTable
    /\ Len(rows) >= 2
    /\ \E p \in PlaceIds : boundedness[p].n > MaxCapacity

====
